---- MODULE Spec2Model ----
(***************************************************************************)
(* The capture / record / export session controller of src/app/page.tsx    *)
(* (the Home component) as a state machine.                                *)
(*                                                                         *)
(* One action is one event of the single-threaded event loop: a handler    *)
(* invoked by the presentation layer, the continuation of an awaited       *)
(* media request, a timer tick or an encoder callback.  An action runs the *)
(* handler to its end, commits the React state it set, and then runs the   *)
(* cleanup of the effect of lines 42-50 when recordedUrl changed (the      *)
(* effect's dependency).  The handlers are functions on records of the     *)
(* component's state, so that they compose as the code's calls do.         *)
(* After the unmount the callbacks still pending run on: they change the   *)
(* refs and the objects of the browser, and their state setters do nothing.*)
(*                                                                         *)
(* Outside the model: the markup, the preview sink of attachStreamToVideo  *)
(* (lines 52-59), the overlay fields, which no handler reads, and what the *)
(* browser does on its own account (a MediaRecorder that stops when the    *)
(* tracks of its stream end, a user who ends a screen share).              *)
(***************************************************************************)
EXTENDS Integers, Sequences, FiniteSets, TLC

\* ------------------------------------------------------------- constants
COUNTDOWN_SECONDS == 3

\* ---------------------------------------------------------------- bounds
MaxAcquisitions == 2    \* prepareStudio calls in one behaviour
MaxRecordings == 2      \* object URLs created in one behaviour
MaxElapsed == 1         \* cap of the elapsed counter
MaxFragments == 2       \* fragments the encoder emits in one recording
MaxTitleLen == 3        \* length of a project title

\* ----------------------------------------------------------------- state
VARIABLES
    recorderState,      \* useState: "idle" | "recording" | "paused"
    recordedUrl,        \* useState: 0 (null) or an object URL handle
    error,              \* useState: "null" or a message
    isStudioReady,      \* useState: BOOLEAN
    countdown,          \* useState: 0 (null) or the number shown
    elapsedSeconds,     \* useState: the elapsed counter
    projectTitle,       \* useState: a sequence of characters
    captureSource,      \* useState: "camera" | "screen"
    includeMicrophone,  \* useState: BOOLEAN
    recorderRef,        \* useRef: TRUE when it holds the MediaRecorder
    streamRef,          \* useRef: 0 (null) or the id of a MediaStream
    timerRef,           \* useRef: TRUE when it holds the running interval
    streams,            \* the MediaStreams handed out: id -> kind, audio, live
    acq,                \* the prepareStudio calls: id -> where each one waits
    countdownTimers,    \* the countdown intervals and their closures
    encoder,            \* the MediaRecorder of startRecording's closure
    chunks,             \* the chunks array of startRecording's closure
    emitted,            \* history: every fragment the encoder emitted
    blob,               \* the parts handed to new Blob by the last onstop
    liveUrls,           \* object URLs created and not revoked
    urlCount,           \* object URLs created so far
    downloadName,       \* anchor.download, when the last event was an export
    awaitingFirstTick,  \* history: no elapsed tick yet since recording started
    mounted,            \* the component is mounted (its effect of line 42 is live)
    lastOp              \* history: the event that ran last

vars == <<recorderState, recordedUrl, error, isStudioReady, countdown,
          elapsedSeconds, projectTitle, captureSource, includeMicrophone,
          recorderRef, streamRef, timerRef, streams, acq, countdownTimers,
          encoder, chunks, emitted, blob, liveUrls, urlCount,
          downloadName, awaitingFirstTick, mounted, lastOp>>

AcqIds == 1..MaxAcquisitions

\* useState("...") of line 24, one character per element: six Cyrillic
\* letters and a space, the letters written "?" (like them, outside ASCII
\* letters and digits)
InitialTitle == <<"?", "?", "?", " ", "?", "?", "?", "?", "?", "?">>

NoStream == [kind |-> "none", audio |-> FALSE, live |-> FALSE]
NoAcq == [stage |-> "none", source |-> "camera", mic |-> FALSE]
DoneAcq == [stage |-> "done", source |-> "camera", mic |-> FALSE]
NoEncoder == [state |-> "inactive", stream |-> 0]

\* The component's state as one record, and its commit.
Cur ==
    [recorderState |-> recorderState, recordedUrl |-> recordedUrl,
     error |-> error, isStudioReady |-> isStudioReady,
     countdown |-> countdown, elapsedSeconds |-> elapsedSeconds,
     projectTitle |-> projectTitle, captureSource |-> captureSource,
     includeMicrophone |-> includeMicrophone, recorderRef |-> recorderRef,
     streamRef |-> streamRef, timerRef |-> timerRef, streams |-> streams,
     acq |-> acq, countdownTimers |-> countdownTimers, encoder |-> encoder,
     chunks |-> chunks, emitted |-> emitted, blob |-> blob,
     liveUrls |-> liveUrls, urlCount |-> urlCount,
     downloadName |-> downloadName,
     awaitingFirstTick |-> awaitingFirstTick, mounted |-> mounted,
     lastOp |-> lastOp]

Set(s) ==
    /\ recorderState' = s.recorderState
    /\ recordedUrl' = s.recordedUrl
    /\ error' = s.error
    /\ isStudioReady' = s.isStudioReady
    /\ countdown' = s.countdown
    /\ elapsedSeconds' = s.elapsedSeconds
    /\ projectTitle' = s.projectTitle
    /\ captureSource' = s.captureSource
    /\ includeMicrophone' = s.includeMicrophone
    /\ recorderRef' = s.recorderRef
    /\ streamRef' = s.streamRef
    /\ timerRef' = s.timerRef
    /\ streams' = s.streams
    /\ acq' = s.acq
    /\ countdownTimers' = s.countdownTimers
    /\ encoder' = s.encoder
    /\ chunks' = s.chunks
    /\ emitted' = s.emitted
    /\ blob' = s.blob
    /\ liveUrls' = s.liveUrls
    /\ urlCount' = s.urlCount
    /\ downloadName' = IF s.lastOp = "download" THEN s.downloadName ELSE <<>>
    /\ awaitingFirstTick' = s.awaitingFirstTick
    /\ mounted' = s.mounted
    /\ lastOp' = s.lastOp

\* ------------------------------------------------------- timers, streams

\* mutant of resetTimer: the interval is cleared, the counter is kept
resetTimerKeepsElapsed(s) == [s EXCEPT !.timerRef = FALSE]

\* resetTimer (lines 29-35)
resetTimer(s) == [s EXCEPT !.timerRef = FALSE, !.elapsedSeconds = 0]

\* teardownStream (lines 37-40): stops every track of the stream held; a
\* stopped stream is garbage, and is kept as NoStream
teardownStream(s) ==
    IF s.streamRef = 0 THEN s
    ELSE [s EXCEPT !.streams[s.streamRef] = NoStream, !.streamRef = 0]

\* the cleanup of the effect (lines 43-49), closed over the recordedUrl of
\* the render that created it
effectCleanup(s, oldUrl) ==
    LET t == teardownStream(s)
        r == IF oldUrl # 0 THEN [t EXCEPT !.liveUrls = @ \ {oldUrl}] ELSE t
    IN resetTimer(r)

\* What a callback leaves when it runs after the unmount: the refs and
\* the objects outside the component change, the state setters do nothing.
discardStateUpdates(s) ==
    [s EXCEPT !.recorderState = recorderState,
              !.recordedUrl = recordedUrl,
              !.error = error,
              !.isStudioReady = isStudioReady,
              !.countdown = countdown,
              !.elapsedSeconds = elapsedSeconds,
              !.projectTitle = projectTitle,
              !.captureSource = captureSource,
              !.includeMicrophone = includeMicrophone]

\* The commit of an event: the effect's cleanup runs when its dependency
\* recordedUrl differs from the one of the previous render (line 50).
Commit(s) ==
    Set(IF ~mounted THEN discardStateUpdates(s)
        ELSE IF s.recordedUrl # recordedUrl
             THEN effectCleanup(s, recordedUrl)
             ELSE s)

\* startTimer (lines 152-157)
startTimer(s) == [resetTimer(s) EXCEPT !.timerRef = TRUE]

Init ==
    /\ recorderState = "idle"
    /\ recordedUrl = 0
    /\ error = "null"
    /\ isStudioReady = FALSE
    /\ countdown = 0
    /\ elapsedSeconds = 0
    /\ projectTitle = InitialTitle
    /\ captureSource = "camera"
    /\ includeMicrophone = TRUE
    /\ recorderRef = FALSE
    /\ streamRef = 0
    /\ timerRef = FALSE
    /\ streams = [i \in AcqIds |-> NoStream]
    /\ acq = [i \in AcqIds |-> NoAcq]
    /\ countdownTimers = <<>>
    /\ encoder = NoEncoder
    /\ chunks = <<>>
    /\ emitted = <<>>
    /\ blob = <<>>
    /\ liveUrls = {}
    /\ urlCount = 0
    /\ downloadName = <<>>
    /\ awaitingFirstTick = FALSE
    /\ mounted = TRUE
    /\ lastOp = "init"

\* ------------------------------------------------- stream acquisition

NextAcqId(s) == Cardinality({i \in AcqIds : s.acq[i].stage # "none"}) + 1

\* what a rejected media request carries: an Error with a message, or a
\* value without one, for which line 104 takes the fallback
Rejections == {"NotAllowedError", ""}

\* lines 100-104: the message of the catch block
acquireMessage(source, err) ==
    IF err # "" THEN err
    ELSE IF source = "camera" THEN "cameraFallback" ELSE "screenFallback"

\* prepareStudio up to its first await (lines 63-71, 79)
prepareStudio(s, source, mic) ==
    LET id == NextAcqId(s)
        t == teardownStream([s EXCEPT !.error = "null", !.isStudioReady = FALSE])
    IN [t EXCEPT !.acq[id] = [stage |-> source, source |-> source, mic |-> mic]]

\* lines 96-98: the acquired stream becomes the active one
adoptStream(s, id) ==
    [s EXCEPT !.streamRef = id, !.isStudioReady = TRUE, !.acq[id] = DoneAcq]

\* lines 99-107: the catch block of prepareStudio
acquireFailed(s, id, err) ==
    LET t == [s EXCEPT !.error = acquireMessage(s.acq[id].source, err),
                       !.acq[id] = DoneAcq]
    IN teardownStream(t)

\* handleEnableStudio (lines 112-114)
handleEnableStudio ==
    /\ mounted
    /\ NextAcqId(Cur) <= MaxAcquisitions
    /\ Commit(prepareStudio([Cur EXCEPT !.lastOp = "enableStudio"],
                            captureSource, includeMicrophone))

\* handleSelectSource (lines 116-124)
handleSelectSource(source) ==
    /\ mounted
    /\ LET s == [Cur EXCEPT !.captureSource = source,
                            !.lastOp = "selectSource"]
       IN IF isStudioReady
          THEN /\ NextAcqId(Cur) <= MaxAcquisitions
               /\ Commit(prepareStudio(s, source, includeMicrophone))
          ELSE Commit(s)

\* handleToggleMicrophone (lines 126-134)
handleToggleMicrophone(nextValue) ==
    /\ mounted
    /\ LET s == [Cur EXCEPT !.includeMicrophone = nextValue,
                            !.lastOp = "toggleMicrophone"]
       IN IF isStudioReady
          THEN /\ NextAcqId(Cur) <= MaxAcquisitions
               /\ Commit(prepareStudio(s, captureSource, nextValue))
          ELSE Commit(s)

\* getUserMedia({video, audio: mic}) resolves (lines 71-77, then 96-98)
CameraResolved(id) ==
    /\ acq[id].stage = "camera"
    /\ LET s == [Cur EXCEPT !.streams[id] = [kind |-> "camera",
                                             audio |-> acq[id].mic,
                                             live |-> TRUE],
                            !.lastOp = "cameraResolved"]
       IN Commit(adoptStream(s, id))

\* getUserMedia or getDisplayMedia rejects (lines 99-107)
AcquireRejected(id, err) ==
    /\ acq[id].stage \in {"camera", "screen"}
    /\ Commit(acquireFailed([Cur EXCEPT !.lastOp = "acquireRejected"], id, err))

\* getDisplayMedia resolves (lines 79-86, or 93-98 without microphone)
ScreenResolved(id) ==
    /\ acq[id].stage = "screen"
    /\ LET s == [Cur EXCEPT !.streams[id] = [kind |-> "screen",
                                             audio |-> FALSE,
                                             live |-> TRUE],
                            !.lastOp = "screenResolved"]
       IN IF acq[id].mic
          THEN Commit([s EXCEPT !.acq[id].stage = "mic",
                                !.lastOp = "screenAcquired"])
          ELSE Commit(adoptStream(s, id))

\* getUserMedia({audio}) resolves: its audio tracks join the screen stream
\* (lines 86-87, then 93-98)
MicResolved(id) ==
    /\ acq[id].stage = "mic"
    /\ LET s == [Cur EXCEPT !.streams[id].audio = TRUE,
                            !.lastOp = "micResolved"]
       IN Commit(adoptStream(s, id))

\* mutant of MicRejected: the rejection reaches the outer catch block
MicRejectedFailsAcquisition(id) ==
    /\ acq[id].stage = "mic"
    /\ Commit(acquireFailed([Cur EXCEPT !.lastOp = "micRejected"], id, ""))

\* getUserMedia({audio}) rejects: only a console warning (lines 88-90),
\* then lines 93-98
MicRejected(id) ==
    /\ acq[id].stage = "mic"
    /\ Commit(adoptStream([Cur EXCEPT !.lastOp = "micRejected"], id))

\* ------------------------------------------------------------ recording

\* the preference list of createRecorder (lines 137-141)
supportedTypes ==
    <<"video/webm;codecs=vp9,opus", "video/webm;codecs=vp8,opus", "video/webm">>

MimeTypes == {supportedTypes[i] : i \in 1..Len(supportedTypes)}

\* createRecorder (lines 136-150): the first type the browser supports, ""
\* when it throws for want of one
createRecorder(supported) ==
    LET ok == {i \in 1..Len(supportedTypes) : supportedTypes[i] \in supported}
    IN IF ok = {} THEN ""
       ELSE supportedTypes[CHOOSE i \in ok : \A j \in ok : i <= j]

\* mutant of startRecording: the check of lines 160-163 is missing
startRecordingUnchecked(s, url, supported) ==
    LET a == IF url # 0
             THEN [s EXCEPT !.liveUrls = @ \ {url},
                            !.recordedUrl = 0,
                            !.blob = <<>>]
             ELSE s
    IN IF createRecorder(supported) = ""
       THEN [a EXCEPT !.error = "noWebm"]
       ELSE startTimer(
              [a EXCEPT !.encoder = [state |-> "recording",
                                     stream |-> a.streamRef],
                        !.chunks = <<>>,
                        !.emitted = <<>>,
                        !.recorderRef = TRUE,
                        !.recorderState = "recording",
                        !.awaitingFirstTick = TRUE])

\* startRecording (lines 159-197) as the closure that saw recordedUrl = url
startRecording(s, url, supported) ==
    IF s.streamRef = 0 THEN [s EXCEPT !.error = "noSource"]
    ELSE LET a == IF url # 0
                  THEN [s EXCEPT !.liveUrls = @ \ {url},
                                 !.recordedUrl = 0,
                                 !.blob = <<>>]
                  ELSE s
         IN IF createRecorder(supported) = ""
            THEN [a EXCEPT !.error = "noWebm"]
            ELSE startTimer(
                   [a EXCEPT !.encoder = [state |-> "recording",
                                          stream |-> a.streamRef],
                             !.chunks = <<>>,
                             !.emitted = <<>>,
                             !.recorderRef = TRUE,
                             !.recorderState = "recording",
                             !.awaitingFirstTick = TRUE])

\* mutant of stopRecording: the guard of line 200 is missing
stopRecordingUnguarded(s) ==
    LET t == teardownStream([s EXCEPT !.encoder.state = "stopping",
                                      !.recorderRef = FALSE])
    IN [t EXCEPT !.isStudioReady = FALSE, !.countdown = 0]

\* mutant of stopRecording: the stream is not torn down (line 203 missing)
stopRecordingKeepsStream(s) ==
    IF s.recorderRef /\ s.recorderState # "idle"
    THEN [s EXCEPT !.encoder.state = "stopping",
                   !.recorderRef = FALSE,
                   !.isStudioReady = FALSE,
                   !.countdown = 0]
    ELSE s

\* stopRecording (lines 199-207)
stopRecording(s) ==
    IF s.recorderRef /\ s.recorderState # "idle"
    THEN LET t == teardownStream([s EXCEPT !.encoder.state = "stopping",
                                           !.recorderRef = FALSE])
         IN [t EXCEPT !.isStudioReady = FALSE, !.countdown = 0]
    ELSE s

\* pauseRecording (lines 209-218)
pauseRecording(s) ==
    IF s.recorderRef /\ s.recorderState = "recording"
    THEN [s EXCEPT !.encoder.state = "paused",
                   !.recorderState = "paused",
                   !.timerRef = FALSE]
    ELSE s

\* resumeRecording (lines 220-226)
resumeRecording(s) ==
    IF s.recorderRef /\ s.recorderState = "paused"
    THEN startTimer([s EXCEPT !.encoder.state = "recording",
                              !.recorderState = "recording"])
    ELSE s

\* mutant of ondataavailable: empty fragments are collected too
ondataavailableKeepsEmpty(s, data) == [s EXCEPT !.chunks = Append(@, data)]

\* recorder.ondataavailable (lines 174-178)
ondataavailable(s, data) ==
    IF data.size > 0 THEN [s EXCEPT !.chunks = Append(@, data)] ELSE s

\* mutant of onstop: recorderState is left as it was (line 184 missing)
onstopKeepsState(s) ==
    LET url == s.urlCount + 1
    IN resetTimer([s EXCEPT !.blob = s.chunks,
                            !.chunks = <<>>,
                            !.emitted = <<>>,
                            !.urlCount = url,
                            !.liveUrls = @ \cup {url},
                            !.recordedUrl = url])

\* recorder.onstop (lines 180-186)
onstop(s) ==
    LET url == s.urlCount + 1
    IN resetTimer([s EXCEPT !.blob = s.chunks,
                            !.chunks = <<>>,
                            !.emitted = <<>>,
                            !.urlCount = url,
                            !.liveUrls = @ \cup {url},
                            !.recordedUrl = url,
                            !.recorderState = "idle"])

\* the Stop button (line 371)
StopRecording ==
    /\ mounted
    /\ Commit(stopRecording([Cur EXCEPT !.lastOp = "stop"]))

\* the Pause button while it reads Pause (line 366)
PauseRecording ==
    /\ mounted
    /\ Commit(pauseRecording([Cur EXCEPT !.lastOp = "pause"]))

\* the Pause button while it reads Continue (line 366)
ResumeRecording ==
    /\ mounted
    /\ Commit(resumeRecording([Cur EXCEPT !.lastOp = "resume"]))

\* a fragment is empty or not
FragmentSizes == {0, 1}

\* the encoder emits a fragment, the n-th of this recording
DataAvailable(size) ==
    /\ encoder.state \in {"recording", "stopping"}
    /\ Len(emitted) < MaxFragments
    /\ LET data == [n |-> Len(emitted) + 1, size |-> size]
           s == [Cur EXCEPT !.emitted = Append(@, data),
                            !.lastOp = "dataavailable"]
       IN Commit(ondataavailable(s, data))

\* the encoder's stop event after recorder.stop()
EncoderStopped ==
    /\ encoder.state = "stopping"
    /\ Commit(onstop([Cur EXCEPT !.encoder.state = "inactive",
                                 !.lastOp = "onstop"]))

\* ------------------------------------------------------------ countdown

\* mutant of beginCountdown: the guard of line 237 checks countdown only
beginCountdownIgnoresState(s) ==
    IF s.countdown # 0 THEN s
    ELSE [s EXCEPT !.countdown = COUNTDOWN_SECONDS,
                   !.countdownTimers =
                       Append(@, [remaining |-> COUNTDOWN_SECONDS,
                                  recordedUrl |-> s.recordedUrl])]

\* mutant of beginCountdown: the guard of line 237 checks recorderState only
beginCountdownIgnoresCountdown(s) ==
    IF s.recorderState # "idle" THEN s
    ELSE [s EXCEPT !.countdown = COUNTDOWN_SECONDS,
                   !.countdownTimers =
                       Append(@, [remaining |-> COUNTDOWN_SECONDS,
                                  recordedUrl |-> s.recordedUrl])]

\* beginCountdown (lines 236-253): the interval keeps its own remaining and
\* the startRecording of the render that created it
beginCountdown(s) ==
    IF s.countdown # 0 \/ s.recorderState # "idle" THEN s
    ELSE [s EXCEPT !.countdown = COUNTDOWN_SECONDS,
                   !.countdownTimers =
                       Append(@, [remaining |-> COUNTDOWN_SECONDS,
                                  recordedUrl |-> s.recordedUrl])]

RemoveAt(q, i) == SubSeq(q, 1, i - 1) \o SubSeq(q, i + 1, Len(q))

\* mutant of countdownTick: the test of line 245 is remaining < 0
countdownTickLate(s, i, supported) ==
    LET remaining == s.countdownTimers[i].remaining - 1
    IN IF remaining < 0
       THEN startRecording(
              [s EXCEPT !.countdownTimers = RemoveAt(@, i),
                        !.countdown = 0,
                        !.lastOp = "countdownExpiry"],
              s.countdownTimers[i].recordedUrl, supported)
       ELSE [s EXCEPT !.countdownTimers[i].remaining = remaining,
                      !.countdown = remaining,
                      !.lastOp = "countdownTick"]

\* the interval callback of beginCountdown (lines 243-252)
countdownTick(s, i, supported) ==
    LET remaining == s.countdownTimers[i].remaining - 1
    IN IF remaining <= 0
       THEN startRecording(
              [s EXCEPT !.countdownTimers = RemoveAt(@, i),
                        !.countdown = 0,
                        !.lastOp = "countdownExpiry"],
              s.countdownTimers[i].recordedUrl, supported)
       ELSE [s EXCEPT !.countdownTimers[i].remaining = remaining,
                      !.countdown = remaining,
                      !.lastOp = "countdownTick"]

BeginCountdown ==
    /\ mounted
    /\ (countdown = 0 /\ recorderState = "idle") => urlCount < MaxRecordings
    /\ Commit(beginCountdown([Cur EXCEPT !.lastOp = "beginCountdown"]))

CountdownTick(i, supported) ==
    /\ i \in 1..Len(countdownTimers)
    /\ Commit(countdownTick(Cur, i, supported))

\* ------------------------------------------------------------ the clock

\* the interval callback of startTimer (lines 154-156)
ElapsedTick ==
    /\ timerRef
    /\ elapsedSeconds < MaxElapsed
    /\ Commit([Cur EXCEPT !.elapsedSeconds = @ + 1,
                          !.awaitingFirstTick = FALSE,
                          !.lastOp = "elapsedTick"])

\* --------------------------------------------------------------- export

Lower == {"a", "b", "c", "d", "e", "f", "g", "h", "i", "j", "k", "l", "m",
          "n", "o", "p", "q", "r", "s", "t", "u", "v", "w", "x", "y", "z"}
Upper == {"A", "B", "C", "D", "E", "F", "G", "H", "I", "J", "K", "L", "M",
          "N", "O", "P", "Q", "R", "S", "T", "U", "V", "W", "X", "Y", "Z"}
Digits == {"0", "1", "2", "3", "4", "5", "6", "7", "8", "9"}

\* the negated class [^a-zA-Z0-9\-_] of line 259
Disallowed(c) == c \notin Lower \cup Upper \cup Digits \cup {"-", "_"}

\* the end of the longest match of [^a-zA-Z0-9\-_]+ that starts at i
RECURSIVE MatchEnd(_, _)
MatchEnd(title, i) ==
    IF i < Len(title) /\ Disallowed(title[i + 1])
    THEN MatchEnd(title, i + 1)
    ELSE i

\* String.prototype.replace(/[^a-zA-Z0-9\-_]+/g, "_") (line 259): scan
\* from the left, replace each match by one "_", go on behind the match
RECURSIVE ReplaceFrom(_, _)
ReplaceFrom(title, i) ==
    IF i > Len(title) THEN <<>>
    ELSE IF Disallowed(title[i])
         THEN <<"_">> \o ReplaceFrom(title, MatchEnd(title, i) + 1)
         ELSE <<title[i]>> \o ReplaceFrom(title, i + 1)

\* mutant of replaceDisallowed: the class without its "+"
replaceEachCharacter(title) ==
    [i \in 1..Len(title) |-> IF Disallowed(title[i]) THEN "_" ELSE title[i]]

replaceDisallowed(title) == ReplaceFrom(title, 1)

\* mutant of fileName: the || "video" is missing
fileNameNoFallback(title) ==
    replaceDisallowed(title) \o <<".", "w", "e", "b", "m">>

\* line 259: the template literal, with || "video" for the empty string
fileName(title) ==
    LET base == replaceDisallowed(title)
    IN (IF base = <<>> THEN <<"v", "i", "d", "e", "o">> ELSE base)
       \o <<".", "w", "e", "b", "m">>

\* downloadRecording (lines 255-264)
downloadRecording(s) ==
    IF s.recordedUrl = 0 THEN s
    ELSE [s EXCEPT !.downloadName = fileName(s.projectTitle)]

\* the export button (line 383)
DownloadRecording ==
    /\ mounted
    /\ Commit(downloadRecording([Cur EXCEPT !.lastOp = "download"]))

\* the characters typed into the input of lines 293-297
Alphabet == {"a", "z", "A", "Z", "0", "9", "-", "_", "?", " ", "!", "."}

\* setProjectTitle (line 295) with the input's value
SetProjectTitle(title) ==
    /\ mounted
    /\ Commit([Cur EXCEPT !.projectTitle = title,
                         !.lastOp = "setProjectTitle"])

\* a keystroke in the title input: a character more, or the last one less
TypeTitle(c) ==
    /\ Len(projectTitle) < MaxTitleLen
    /\ SetProjectTitle(Append(projectTitle, c))

EraseTitle ==
    /\ projectTitle # <<>>
    /\ SetProjectTitle(SubSeq(projectTitle, 1, Len(projectTitle) - 1))

\* ------------------------------------------------------- specifications

Next ==
    \/ handleEnableStudio
    \/ \E source \in {"camera", "screen"} : handleSelectSource(source)
    \/ \E nextValue \in BOOLEAN : handleToggleMicrophone(nextValue)
    \/ \E id \in AcqIds : CameraResolved(id)
    \/ \E id \in AcqIds, err \in Rejections : AcquireRejected(id, err)
    \/ \E id \in AcqIds : ScreenResolved(id)
    \/ \E id \in AcqIds : MicResolved(id)
    \/ \E id \in AcqIds : MicRejected(id)
    \/ BeginCountdown
    \/ \E i \in 1..MaxRecordings, supported \in SUBSET MimeTypes :
          CountdownTick(i, supported)
    \/ StopRecording
    \/ PauseRecording
    \/ ResumeRecording
    \/ \E size \in FragmentSizes : DataAvailable(size)
    \/ EncoderStopped
    \/ ElapsedTick

\* The session with every handler, callback and timer.
Spec == Init /\ [][Next]_vars

\* The user agent delivers the stop event of every recorder.stop(): the
\* encoder's callback is not postponed for ever.
SpecFair == Spec /\ WF_vars(EncoderStopped)

\* Sessions on the camera whose requests are granted: the source is never
\* changed, the microphone never toggled, getUserMedia never rejects.
NextCamera ==
    \/ handleEnableStudio
    \/ \E id \in AcqIds : CameraResolved(id)
    \/ BeginCountdown
    \/ \E i \in 1..MaxRecordings, supported \in SUBSET MimeTypes :
          CountdownTick(i, supported)
    \/ StopRecording
    \/ PauseRecording
    \/ ResumeRecording
    \/ \E size \in FragmentSizes : DataAvailable(size)
    \/ EncoderStopped
    \/ ElapsedTick

SpecCameraFair == Init /\ [][NextCamera]_vars /\ WF_vars(EncoderStopped)

\* The component is unmounted: React runs the effect's cleanup (lines
\* 43-49) a last time and drops the component's state; the refs, the
\* intervals and the pending promises are untouched by React.
Unmount ==
    /\ mounted
    /\ LET s == effectCleanup([Cur EXCEPT !.lastOp = "unmount"], recordedUrl)
       IN Set([s EXCEPT !.mounted = FALSE,
                        !.recorderState = "idle",
                        !.recordedUrl = 0,
                        !.error = "null",
                        !.isStudioReady = FALSE,
                        !.countdown = 0,
                        !.elapsedSeconds = 0,
                        !.projectTitle = InitialTitle,
                        !.captureSource = "camera",
                        !.includeMicrophone = TRUE])

\* The session up to and after its unmount: the callbacks and timers that
\* are still pending run on.
NextUnmount ==
    \/ Next
    \/ Unmount

SpecUnmount == Init /\ [][NextUnmount]_vars

\* The session after a first recording from the camera was stopped and
\* finalized without a fragment; Spec reaches it by enable studio, camera
\* resolved, begin countdown, three ticks, stop, finalize callback.
AfterFirstRecording ==
    /\ recorderState = "idle"
    /\ recordedUrl = 1
    /\ error = "null"
    /\ isStudioReady = FALSE
    /\ countdown = 0
    /\ elapsedSeconds = 0
    /\ projectTitle = InitialTitle
    /\ captureSource = "camera"
    /\ includeMicrophone = TRUE
    /\ recorderRef = FALSE
    /\ streamRef = 0
    /\ timerRef = FALSE
    /\ streams = [i \in AcqIds |-> NoStream]
    /\ acq = [i \in AcqIds |-> IF i = 1 THEN DoneAcq ELSE NoAcq]
    /\ countdownTimers = <<>>
    /\ encoder = [state |-> "inactive", stream |-> 1]
    /\ chunks = <<>>
    /\ emitted = <<>>
    /\ blob = <<>>
    /\ liveUrls = {1}
    /\ urlCount = 1
    /\ downloadName = <<>>
    /\ awaitingFirstTick = TRUE
    /\ mounted = TRUE
    /\ lastOp = "onstop"

\* The export of a finished recording under every title typed: the title
\* input and the export button, from the state after a first recording.
NextExport ==
    \/ \E c \in Alphabet : TypeTitle(c)
    \/ EraseTitle
    \/ DownloadRecording

SpecExport == AfterFirstRecording /\ [][NextExport]_vars

\* ---------------------------------------------------------------- claims

\* every variable but the histories lastOp and downloadName
sessionVars ==
    <<recorderState, recordedUrl, error, isStudioReady, countdown,
      elapsedSeconds, projectTitle, captureSource, includeMicrophone,
      recorderRef, streamRef, timerRef, streams, acq, countdownTimers,
      encoder, chunks, emitted, blob, liveUrls, urlCount, awaitingFirstTick,
      mounted>>

\* C1: within one recording (recorderState not idle, up to the finalize
\* callback) elapsedSeconds changes only by +1 on a tick taken while
\* recording, never while paused, and a pause or a resume never lowers it.
C1_ElapsedRetained ==
    [][(recorderState # "idle" /\ lastOp' # "onstop") =>
         /\ elapsedSeconds' # elapsedSeconds =>
               /\ lastOp' = "elapsedTick"
               /\ recorderState = "recording"
               /\ elapsedSeconds' = elapsedSeconds + 1
         /\ lastOp' \in {"pause", "resume"} =>
               elapsedSeconds' >= elapsedSeconds]_vars

\* C2: a step that takes recorderState from idle to recording leaves
\* elapsedSeconds 0, and the first elapsed tick after it makes it 1.
C2_StartResetsElapsed ==
    [][/\ (recorderState = "idle" /\ recorderState' = "recording") =>
             elapsedSeconds' = 0
       /\ (lastOp' = "elapsedTick" /\ awaitingFirstTick) =>
             elapsedSeconds' = 1]_vars

\* C2 witness: a second recording has just started, the counter at 0
C2_Witness ==
    /\ lastOp = "countdownExpiry"
    /\ recorderState = "recording"
    /\ urlCount >= 1
    /\ elapsedSeconds = 0

\* the non-empty fragments of a sequence of emitted fragments, in order
NonEmptyFragments(q) == SelectSeq(q, LAMBDA d : d.size > 0)

\* C3: the parts the finalize callback hands to the Blob are exactly the
\* non-empty fragments the encoder emitted during this recording, in the
\* order of emission.
C3_FragmentsInOrder ==
    [][lastOp' = "onstop" => blob' = NonEmptyFragments(emitted)]_vars

\* C3 witness: a finalized recording whose first fragment was empty and
\* skipped, and whose second was kept
C3_Witness ==
    /\ lastOp = "onstop"
    /\ Len(blob) = 1
    /\ blob[1].n = 2

\* C4: a stop call while recorderState is idle changes nothing.
C4_StopIdleNoOp ==
    [][(lastOp' = "stop" /\ recorderState = "idle") =>
         UNCHANGED sessionVars]_vars

\* C4 witness: stop was called during a countdown with the studio ready
C4_Witness ==
    /\ lastOp = "stop"
    /\ recorderState = "idle"
    /\ countdown # 0
    /\ isStudioReady
    /\ streamRef # 0

\* C5: a begin-countdown call while recorderState is not idle, or while a
\* countdown is running, changes nothing and creates no timer.
C5_BeginCountdownNoOp ==
    [][(/\ lastOp' = "beginCountdown"
        /\ \/ recorderState # "idle"
           \/ countdown # 0
           \/ countdownTimers # <<>>) =>
         UNCHANGED sessionVars]_vars

\* C5 witness: begin-countdown was called while a countdown showed 1
C5_Witness ==
    /\ lastOp = "beginCountdown"
    /\ countdown = 1
    /\ Len(countdownTimers) = 1

\* C6: after an acquisition completed with a camera or screen failure,
\* activeStream is null, isStudioReady is false and lastError is set.
C6_FailureLeavesNoStream ==
    lastOp = "acquireRejected" =>
        /\ streamRef = 0
        /\ ~isStudioReady
        /\ error # "null"

\* the per-character reference: every character outside the class becomes
\* one "_", every other character stays in its place
PerCharacterName(title) ==
    [i \in 1..Len(title) |-> IF Disallowed(title[i]) THEN "_" ELSE title[i]]

\* the per-run reference: of every maximal run of characters outside the
\* class only the first position is kept, as "_"; the other characters stay
PerRunName(title) ==
    LET kept == {i \in 1..Len(title) :
                    \/ ~Disallowed(title[i])
                    \/ i = 1
                    \/ ~Disallowed(title[i - 1])}
        RECURSIVE Pick(_)
        Pick(i) ==
            IF i > Len(title) THEN <<>>
            ELSE IF i \in kept
                 THEN <<IF Disallowed(title[i]) THEN "_" ELSE title[i]>>
                      \o Pick(i + 1)
                 ELSE Pick(i + 1)
    IN Pick(1)

DotWebm == <<".", "w", "e", "b", "m">>
DefaultName == <<"v", "i", "d", "e", "o">>

Exported == lastOp = "download" /\ recordedUrl # 0

AllDisallowed(title) == \A i \in 1..Len(title) : Disallowed(title[i])

\* C7 as stated: the exported base name is the title with every single
\* character outside [A-Za-z0-9_-] replaced by one "_".
C7_PerCharacter ==
    (Exported /\ projectTitle # <<>>) =>
        downloadName = PerCharacterName(projectTitle) \o DotWebm

\* C7 amended: the exported base name is the title with every maximal run
\* of characters outside [A-Za-z0-9_-] replaced by one "_".
C7_PerRun ==
    (Exported /\ projectTitle # <<>>) =>
        downloadName = PerRunName(projectTitle) \o DotWebm

\* C7 witness: an export under a title with a run of two such characters
C7_Witness ==
    /\ Exported
    /\ projectTitle = <<"a", "?", " ">>
    /\ downloadName = <<"a", "_">> \o DotWebm

\* C8 as stated: an empty title, or one made only of characters outside
\* the class, exports under the default base name.
C8_DefaultForDisallowed ==
    (Exported /\ AllDisallowed(projectTitle)) =>
        downloadName = DefaultName \o DotWebm

\* C8 amended: only the empty title exports under the default base name; a
\* non-empty title made only of characters outside the class exports as "_".
C8_DefaultOnlyForEmpty ==
    Exported =>
        /\ projectTitle = <<>> => downloadName = DefaultName \o DotWebm
        /\ (projectTitle # <<>> /\ AllDisallowed(projectTitle)) =>
              downloadName = <<"_">> \o DotWebm
        /\ downloadName = DefaultName \o DotWebm =>
              projectTitle \in {<<>>, DefaultName}

\* C8 witness: an export under the title "???"
C8_Witness ==
    /\ Exported
    /\ projectTitle = <<"?", "?", "?">>
    /\ downloadName = <<"_">> \o DotWebm

\* C9: start-recording at countdown expiry without an active stream sets
\* the "no active source" error and changes nothing else: recorderState
\* stays idle, no encoder, no elapsed timer, the artifact untouched.
C9_NoSourceNoChange ==
    [][(lastOp' = "countdownExpiry" /\ streamRef = 0) =>
         /\ error' = "noSource"
         /\ recorderState' = "idle"
         /\ UNCHANGED <<recorderState, recordedUrl, isStudioReady,
                        elapsedSeconds, recorderRef, streamRef, timerRef,
                        streams, acq, encoder, chunks, emitted, blob,
                        liveUrls, urlCount>>]_vars

\* C9 witness: the countdown expired without a stream while an artifact
\* of an earlier recording existed
C9_Witness ==
    /\ lastOp = "countdownExpiry"
    /\ error = "noSource"
    /\ recorderState = "idle"
    /\ recordedUrl # 0
    /\ ~recorderRef
    /\ ~timerRef

\* C10: when the microphone request of a screen acquisition fails, the
\* acquisition succeeds: the video-only screen stream becomes the active
\* stream, isStudioReady becomes true and lastError is left as it was.
C10_MicFailureDegrades ==
    [][lastOp' = "micRejected" =>
         \E id \in AcqIds :
             /\ acq[id].stage = "mic"
             /\ streamRef' = id
             /\ streams'[id] = [kind |-> "screen", audio |-> FALSE,
                                live |-> TRUE]
             /\ isStudioReady'
             /\ error' = error]_vars

\* C10 witness: the studio is ready on a video-only screen stream right
\* after the microphone request failed, with no error shown
C10_Witness ==
    /\ lastOp = "micRejected"
    /\ isStudioReady
    /\ streamRef # 0
    /\ streams[streamRef] = [kind |-> "screen", audio |-> FALSE, live |-> TRUE]
    /\ error = "null"

\* C11 as stated: a stop invoked while recorderState is recording or paused
\* always signals the encoder to finalize, releases the active stream,
\* clears isStudioReady and the countdown, within the stop call itself.
C11_StopAlwaysReleases ==
    [][(lastOp' = "stop" /\ recorderState \in {"recording", "paused"}) =>
         /\ encoder'.state = "stopping"
         /\ streamRef' = 0
         /\ streamRef # 0 => ~streams'[streamRef].live
         /\ ~isStudioReady'
         /\ countdown' = 0]_vars

\* C11: a stop invoked while recorderState is recording or paused and the
\* recorder is still held (no earlier stop awaits its finalize callback)
\* signals the encoder to finalize, stops the tracks of the active stream
\* and forgets it, clears isStudioReady and the countdown, all within the
\* stop call: recorderState and the artifact wait for the callback.
C11_StopReleases ==
    [][(lastOp' = "stop" /\ recorderState \in {"recording", "paused"}
          /\ recorderRef) =>
         /\ encoder.state \in {"recording", "paused"}
         /\ encoder'.state = "stopping"
         /\ ~recorderRef'
         /\ streamRef' = 0
         /\ streamRef # 0 => ~streams'[streamRef].live
         /\ ~isStudioReady'
         /\ countdown' = 0
         /\ recorderState' = recorderState
         /\ recordedUrl' = recordedUrl]_vars

\* C11 witness: stop has just released a live stream of a paused recording
\* and the finalize callback is still to come
C11_Witness ==
    /\ lastOp = "stop"
    /\ recorderState = "paused"
    /\ encoder.state = "stopping"
    /\ encoder.stream # 0
    /\ streamRef = 0
    /\ ~isStudioReady
    /\ recordedUrl = 0

\* the session right after the finalize callback
Finalized ==
    /\ recorderState = "idle"
    /\ recordedUrl # 0
    /\ recordedUrl \in liveUrls
    /\ elapsedSeconds = 0
    /\ ~timerRef

\* C12: finalization is asynchronous.  While a stop awaits the finalize
\* callback the artifact is not set and recorderState is not idle; the
\* callback makes exactly one artifact of the recording and leaves the
\* session idle with that artifact, elapsedSeconds 0 and no elapsed timer;
\* a delivered callback is the only way an artifact appears; and, the
\* callback being eventually delivered, every stop leads to that state.
C12_Finalization ==
    /\ [](encoder.state = "stopping" =>
             recordedUrl = 0 /\ recorderState # "idle")
    /\ [][lastOp' = "onstop" =>
             /\ encoder.state = "stopping"
             /\ encoder'.state = "inactive"
             /\ urlCount' = urlCount + 1
             /\ recordedUrl' = urlCount'
             /\ recordedUrl' \notin liveUrls
             /\ Finalized']_vars
    /\ [][(urlCount' # urlCount \/ (recordedUrl' # recordedUrl /\ recordedUrl' # 0))
             => lastOp' = "onstop"]_vars
    /\ [][(encoder'.state = "recording" /\ encoder.state \notin {"recording", "paused"})
             => encoder.state = "inactive"]_vars
    /\ (encoder.state = "stopping") ~> Finalized

\* C12 witness: the finalize callback of the second recording has just
\* delivered the second artifact
C12_Witness ==
    /\ lastOp = "onstop"
    /\ Finalized
    /\ recordedUrl = 2
    /\ encoder.state = "inactive"

\* the acquired streams whose tracks are not stopped
LiveStreams == {id \in AcqIds : streams[id].live}

\* C13: however concurrent acquisitions resolve, never more than one
\* acquired stream is live, and once none is in flight the active stream
\* is the stream of the acquisition issued last.
C13_LatestAcquisitionWins ==
    /\ Cardinality(LiveStreams) <= 1
    /\ (streamRef # 0 /\ \A id \in AcqIds : acq[id] \in {NoAcq, DoneAcq}) =>
          streamRef = NextAcqId(Cur) - 1

\* C14: after the unmount no acquired stream is live, no artifact handle
\* is live and no timer runs, the countdown's interval included, whatever
\* was pending when the component went away.
C14_NothingOutlivesUnmount ==
    ~mounted =>
        /\ LiveStreams = {}
        /\ liveUrls = {}
        /\ ~timerRef
        /\ countdownTimers = <<>>

\* prepareStudio has just returned from its try block (line 98)
AcquisitionSucceeded ==
    lastOp \in {"cameraResolved", "screenResolved", "micResolved", "micRejected"}

\* startRecording has just returned from its try block (line 191)
StartSucceeded == lastOp = "countdownExpiry" /\ recorderState = "recording"

\* C15: right after an acquisition or a start-recording that succeeded
\* lastError is null.
C15_SuccessClearsError ==
    (mounted /\ (AcquisitionSucceeded \/ StartSucceeded)) => error = "null"

\* C16: whenever isStudioReady is true there is an active stream, and its
\* tracks are not stopped.
C16_ReadyHasStream ==
    isStudioReady => (streamRef # 0 /\ streams[streamRef].live)

\* C17: while recorderState is recording and the recorder is held (stop
\* has not been called), the encoder records the active stream, whose
\* tracks are not stopped, and the elapsed timer runs.
C17_RecordingHasStreamAndTimer ==
    (recorderState = "recording" /\ recorderRef) =>
        /\ encoder.state = "recording"
        /\ streamRef # 0
        /\ encoder.stream = streamRef
        /\ streams[streamRef].live
        /\ timerRef

\* C18: at most one countdown interval exists, it exists exactly while a
\* countdown is shown, which happens only while recorderState is idle;
\* the elapsed interval runs only while recorderState is recording; the
\* two never run at the same time.
C18_TimersExclusive ==
    /\ Len(countdownTimers) <= 1
    /\ countdown # 0 <=> countdownTimers # <<>>
    /\ countdownTimers # <<>> => countdown = countdownTimers[1].remaining
    /\ countdown # 0 => recorderState = "idle"
    /\ timerRef => recorderState = "recording"
    /\ ~(timerRef /\ countdownTimers # <<>>)

\* C18 witness: the countdown before a second recording shows 1; the
\* elapsed timer of the first recording is gone
C18_Witness ==
    /\ lastOp = "countdownTick"
    /\ countdown = 1
    /\ Len(countdownTimers) = 1
    /\ recorderState = "idle"
    /\ recordedUrl # 0
    /\ ~timerRef

\* C19: begin-countdown from idle shows COUNTDOWN_SECONDS; each tick but
\* the last lowers the number shown by one and leaves recorderState idle;
\* the tick taken at 1, the third, clears the countdown and its interval
\* and calls start-recording in the same step: with an active stream and
\* a supported format recorderState is recording and elapsedSeconds is 0
\* right after it; and recorderState leaves idle for recording on no
\* other step.
C19_ThirdTickStarts ==
    /\ [][(lastOp' = "beginCountdown" /\ countdown = 0
            /\ recorderState = "idle") =>
             /\ countdown' = COUNTDOWN_SECONDS
             /\ recorderState' = "idle"]_vars
    /\ [][lastOp' = "countdownTick" =>
             /\ countdown \in 2..COUNTDOWN_SECONDS
             /\ countdown' = countdown - 1
             /\ recorderState' = "idle"]_vars
    /\ [][lastOp' = "countdownExpiry" =>
             /\ countdown = 1
             /\ countdown' = 0
             /\ countdownTimers' = <<>>]_vars
    /\ [][\A supported \in SUBSET MimeTypes :
             (/\ supported # {}
              /\ streamRef # 0
              /\ countdown = 1
              /\ CountdownTick(1, supported)) =>
                 /\ recorderState' = "recording"
                 /\ elapsedSeconds' = 0
                 /\ countdown' = 0]_vars
    /\ [][(recorderState = "idle" /\ recorderState' # "idle") =>
             /\ lastOp' = "countdownExpiry"
             /\ recorderState' = "recording"]_vars

\* C19 witness: the third tick has just started the recording
C19_Witness ==
    /\ lastOp = "countdownExpiry"
    /\ countdown = 0
    /\ countdownTimers = <<>>
    /\ recorderState = "recording"
    /\ elapsedSeconds = 0
    /\ streamRef # 0
    /\ timerRef

\* C20: at most one artifact handle is live; a live handle is the one
\* finishedArtifact holds, every older one having been revoked, and after
\* the unmount none is live; finishedArtifact is never a revoked handle.
C20_OneLiveHandle ==
    /\ Cardinality(liveUrls) <= 1
    /\ recordedUrl # 0 => recordedUrl \in liveUrls
    /\ liveUrls \subseteq {recordedUrl}
====
